---- MODULE Spec2Model ----
(***************************************************************************)
(* Heart Disease Risk Calculator (src/streamlit_app.py).                   *)
(*                                                                         *)
(* The page is a script that is run from top to bottom once per cycle: on  *)
(* page load / rerun, after every widget change and after a click on the   *)
(* "Assess Risk" button.  One action of this model is one whole run of the *)
(* script.  What survives between runs is the process-wide resource cache  *)
(* of load_model (st.cache_resource), the widget selections of the session *)
(* and the artifact file on disk.  All other variables describe the last   *)
(* run: the module-level names the script assigned and the page it drew.   *)
(*                                                                         *)
(* Probabilities are exact multiples of 1/Scale.  A double that falls just *)
(* short of a decimal value is represented by the grid point below it, so  *)
(* comparisons and int(p * 100) act on the grid as they act on doubles.    *)
(* The ST depression slider is kept in hundredths: 0.0, 1.5, 6.2 are 0,    *)
(* 150, 620.                                                               *)
(***************************************************************************)
EXTENDS Integers, Sequences, FiniteSets, TLC

\* ------------------------------------------------------------- bounds
\* Widget changes explored per session.
MaxEdits == 2

\* ---------------------------------------------------------- constants
\* prediction_prob is kept in units of 1/Scale.
Scale == 10000

AgeMin == 20
AgeMax == 80
AgeDefault == 58
TrestbpsMin == 80
TrestbpsMax == 200
TrestbpsDefault == 120
CholMin == 100
CholMax == 600
CholDefault == 210
ThalachMin == 60
ThalachMax == 220
ThalachDefault == 130
OldpeakMin == 0
OldpeakMax == 620
OldpeakDefault == 150
CaMin == 0
CaMax == 3
CaDefault == 0

\* THRESHOLD = 0.3
THRESHOLD == (3 * Scale) \div 10

\* ------------------------------------------------------ option tuples
SexOptions == << "Male", "Female" >>

CpOptions ==
    <<
       << "T", "y", "p", "i", "c", "a", "l", " ", "A", "n", "g", "i", "n", "a", " ", "(", "0", ")" >>,
       << "A", "t", "y", "p", "i", "c", "a", "l", " ", "A", "n", "g", "i", "n", "a", " ", "(", "1", ")" >>,
       << "N", "o", "n", "-", "a", "n", "g", "i", "n", "a", "l", " ", "P", "a", "i", "n", " ", "(", "2", ")" >>,
       << "A", "s", "y", "m", "p", "t", "o", "m", "a", "t", "i", "c", " ", "(", "3", ")" >>
    >>

FbsOptions == << "No", "Yes" >>

RestecgOptions == << 0, 1, 2 >>

ExangOptions == << "No", "Yes" >>

SlopeOptions == << 0, 1, 2 >>

ThalOptions ==
    <<
       << "N", "o", "r", "m", "a", "l", " ", "(", "1", ")" >>,
       << "F", "i", "x", "e", "d", " ", "D", "e", "f", "e", "c", "t", " ", "(", "2", ")" >>,
       << "R", "e", "v", "e", "r", "s", "i", "b", "l", "e", " ", "D", "e", "f", "e", "c", "t", " ", "(", "3", ")" >>
    >>

\* The thirteen widgets of the sidebar, by the name of the value they feed.
WidgetNames ==
    { "age", "sex", "cp", "trestbps", "chol", "thalach", "fbs", "restecg",
      "exang", "oldpeak", "slope", "ca", "thal" }

\* A slider holds its value; a selectbox or radio holds the index (from 1) of
\* the chosen option.  Sliders are explored at both ends and at the default.
Choices(w) ==
    CASE w = "age"      -> { AgeMin, AgeDefault, AgeMax }
      [] w = "sex"      -> DOMAIN SexOptions
      [] w = "cp"       -> DOMAIN CpOptions
      [] w = "trestbps" -> { TrestbpsMin, TrestbpsDefault, TrestbpsMax }
      [] w = "chol"     -> { CholMin, CholDefault, CholMax }
      [] w = "thalach"  -> { ThalachMin, ThalachDefault, ThalachMax }
      [] w = "fbs"      -> DOMAIN FbsOptions
      [] w = "restecg"  -> DOMAIN RestecgOptions
      [] w = "exang"    -> DOMAIN ExangOptions
      [] w = "oldpeak"  -> { OldpeakMin, OldpeakDefault, OldpeakMax }
      [] w = "slope"    -> DOMAIN SlopeOptions
      [] w = "ca"       -> CaMin .. CaMax
      [] w = "thal"     -> DOMAIN ThalOptions

\* The third argument of each slider, index= of each selectbox (from 0 in the
\* source), and the first option where no index is given.
DefaultSelections ==
    [ w \in WidgetNames |->
        CASE w = "age"      -> AgeDefault
          [] w = "sex"      -> 1
          [] w = "cp"       -> 3
          [] w = "trestbps" -> TrestbpsDefault
          [] w = "chol"     -> CholDefault
          [] w = "thalach"  -> ThalachDefault
          [] w = "fbs"      -> 1
          [] w = "restecg"  -> 2
          [] w = "exang"    -> 1
          [] w = "oldpeak"  -> OldpeakDefault
          [] w = "slope"    -> 2
          [] w = "ca"       -> CaDefault
          [] w = "thal"     -> 2 ]

\* ----------------------------------------------------- string helpers
\* s.split(sep)[-1]: what follows the last sep, the whole of s without one.
SplitLast(s, sep) ==
    LET hits == { i \in 1..Len(s) : s[i] = sep }
        last == IF hits = {} THEN 0
                ELSE CHOOSE i \in hits : \A j \in hits : j <= i
    IN  SubSeq(s, last + 1, Len(s))

\* s.strip(c): s without its leading and trailing run of c.
Strip(s, c) ==
    LET keep == { i \in 1..Len(s) : s[i] # c }
    IN  IF keep = {} THEN << >>
        ELSE SubSeq(s, CHOOSE i \in keep : \A j \in keep : i <= j,
                       CHOOSE i \in keep : \A j \in keep : j <= i)

Digits == << "0", "1", "2", "3", "4", "5", "6", "7", "8", "9" >>

DigitValue(c) == (CHOOSE i \in DOMAIN Digits : Digits[i] = c) - 1

IsDigit(c) == \E i \in DOMAIN Digits : Digits[i] = c

RECURSIVE DecimalValue(_)
DecimalValue(s) ==
    IF s = << >> THEN 0
    ELSE 10 * DecimalValue(SubSeq(s, 1, Len(s) - 1)) + DigitValue(s[Len(s)])

\* int(s) of a string: blanks around the digits are ignored; anything that is
\* not a run of digits raises ValueError, written -1 here (no label of the
\* source takes that branch).
PyInt(s) ==
    LET t == Strip(s, " ")
    IN  IF t # << >> /\ \A i \in 1..Len(t) : IsDigit(t[i])
        THEN DecimalValue(t)
        ELSE -1

\* Variant of LabelCode: split("(")[0] in place of [-1].
LabelCodeFirstPiece(label) ==
    LET hits == { i \in 1..Len(label) : label[i] = "(" }
        first == IF hits = {} THEN Len(label) + 1
                 ELSE CHOOSE i \in hits : \A j \in hits : i <= j
    IN  PyInt(Strip(SubSeq(label, 1, first - 1), ")"))

\* int(option.split("(")[-1].strip(")"))
LabelCode(label) == PyInt(Strip(SplitLast(label, "("), ")"))

\* ------------------------------------------------ user_input_features
\* Variant of user_input_features: the 'thal' key left out of the dict.
user_input_features_no_thal(w) ==
    [ age      |-> w["age"],
      sex      |-> IF SexOptions[w["sex"]] = "Male" THEN 1 ELSE 0,
      cp       |-> LabelCode(CpOptions[w["cp"]]),
      trestbps |-> w["trestbps"],
      chol     |-> w["chol"],
      fbs      |-> IF FbsOptions[w["fbs"]] = "Yes" THEN 1 ELSE 0,
      restecg  |-> RestecgOptions[w["restecg"]],
      thalach  |-> w["thalach"],
      exang    |-> IF ExangOptions[w["exang"]] = "Yes" THEN 1 ELSE 0,
      oldpeak  |-> w["oldpeak"],
      slope    |-> SlopeOptions[w["slope"]],
      ca       |-> w["ca"] ]

\* The one-row frame, as the record of its thirteen columns.
user_input_features(w) ==
    [ age      |-> w["age"],
      sex      |-> IF SexOptions[w["sex"]] = "Male" THEN 1 ELSE 0,
      cp       |-> LabelCode(CpOptions[w["cp"]]),
      trestbps |-> w["trestbps"],
      chol     |-> w["chol"],
      fbs      |-> IF FbsOptions[w["fbs"]] = "Yes" THEN 1 ELSE 0,
      restecg  |-> RestecgOptions[w["restecg"]],
      thalach  |-> w["thalach"],
      exang    |-> IF ExangOptions[w["exang"]] = "Yes" THEN 1 ELSE 0,
      oldpeak  |-> w["oldpeak"],
      slope    |-> SlopeOptions[w["slope"]],
      ca       |-> w["ca"],
      thal     |-> LabelCode(ThalOptions[w["thal"]]) ]

\* ------------------------------------------------------------ values
\* Python's None, and the object a successful joblib.load builds; every load
\* builds a new object, told apart by id.
NoneValue == [ kind |-> "None", id |-> 0 ]

ModelObject(n) == [ kind |-> "model", id |-> n ]

\* Variant of Truthy: the `if model:` test left out.
TruthyAlways(v) == TRUE

\* bool(model) in `if model:`; a fitted classifier is truthy, None is not.
Truthy(v) == v.kind # "None"

\* ------------------------------------------------------------- state
VARIABLES
    artifact,           \* heart_disease_rf_model.pkl: "absent", "valid", "corrupt"
    cache,              \* st.cache_resource entry of load_model: << >> or <<entry>>
    deserializations,   \* objects joblib.load has built in this process
    firstReturn,        \* << >>, or <<v>> for the first value load_model returned
    widget,             \* the session's widget selections
    edits,              \* widget changes made so far
    cause,              \* what started the last run: "none", "rerun", "widget", "assess"
    loadStatus,         \* load_model in the last run: "none", "hit", "loaded", "notfound", "raised"
    model,              \* the name `model` in the last run: << >> or <<v>>
    input_df,           \* the name `input_df` in the last run: << >> or <<record>>
    predict_arg,        \* what predict_proba was called with in the last run
    prediction_prob,    \* << >> or <<p>>, p in units of 1/Scale
    progress,           \* << >> or <<n>>, the argument of st.progress
    page                \* the elements the last run drew

vars ==
    << artifact, cache, deserializations, firstReturn, widget, edits, cause,
       loadStatus, model, input_df, predict_arg, prediction_prob, progress, page >>

\* Probabilities a classifier is tried with.
Probs == { 0, 1000, 2999, 3000, 4500, 10000 }

\* --------------------------------------------------------- load_model
\* joblib.load('heart_disease_rf_model.pkl')
JoblibLoad(a, n) ==
    CASE a = "valid"   -> [ raises |-> "",                  value |-> <<ModelObject(n + 1)>> ]
      [] a = "absent"  -> [ raises |-> "FileNotFoundError", value |-> << >> ]
      [] a = "corrupt" -> [ raises |-> "Exception",         value |-> << >> ]

\* The body of load_model: the value it returns, the elements it draws, and
\* the exception that leaves it.
load_model_body(a, n) ==
    LET r == JoblibLoad(a, n)
    IN  CASE r.raises = "" ->
               [ raises |-> "", value |-> r.value, drawn |-> {}, status |-> "loaded" ]
          [] r.raises = "FileNotFoundError" ->
               [ raises |-> "", value |-> <<NoneValue>>, drawn |-> { "model_error" },
                 status |-> "notfound" ]
          [] OTHER ->
               [ raises |-> r.raises, value |-> << >>, drawn |-> {}, status |-> "raised" ]

\* Variant of load_model: no @st.cache_resource.
load_model_uncached(c, a, n) ==
    LET b == load_model_body(a, n)
    IN  [ raises |-> b.raises, value |-> b.value, drawn |-> b.drawn,
          status |-> b.status, cache |-> << >> ]

\* Variant of load_model: a None return is not stored.
load_model_none_uncached(c, a, n) ==
    IF c # << >>
    THEN [ raises |-> "", value |-> <<c[1].value>>, drawn |-> c[1].drawn,
           status |-> "hit", cache |-> c ]
    ELSE LET b == load_model_body(a, n)
         IN  [ raises |-> b.raises, value |-> b.value, drawn |-> b.drawn,
               status |-> b.status,
               cache  |-> IF b.raises = "" /\ b.value # <<NoneValue>>
                          THEN << [ value |-> b.value[1], drawn |-> b.drawn ] >>
                          ELSE << >> ]

\* @st.cache_resource around the body: a stored entry is returned and the
\* elements recorded with it are drawn again; otherwise the body runs, and
\* its return value is stored unless an exception left it.
load_model(c, a, n) ==
    IF c # << >>
    THEN [ raises |-> "", value |-> <<c[1].value>>, drawn |-> c[1].drawn,
           status |-> "hit", cache |-> c ]
    ELSE LET b == load_model_body(a, n)
         IN  [ raises |-> b.raises, value |-> b.value, drawn |-> b.drawn,
               status |-> b.status,
               cache  |-> IF b.raises = ""
                          THEN << [ value |-> b.value[1], drawn |-> b.drawn ] >>
                          ELSE << >> ]

\* ---------------------------------------------------- risk and display
\* Variants of is_high_risk: > in place of >=, and a 0.5 cut-off.
is_high_risk_strict(p) == p > THRESHOLD

is_high_risk_midpoint(p) == p >= Scale \div 2

\* is_high_risk = prediction_prob >= THRESHOLD
is_high_risk(p) == p >= THRESHOLD

\* Variant of ProgressValue: scaled by 1000.
ProgressValuePerMille(p) == (p * 1000) \div Scale

\* int(prediction_prob * 100)
ProgressValue(p) == (p * 100) \div Scale

\* Variant of Button: True in every run.
ButtonSticky(c) == TRUE

\* st.button("Assess Risk") is True only in the run its click started.
Button(c) == c = "assess"

HeaderElements == { "title", "intro" }

FormElements == { "sidebar_header", "widgets", "summary", "button" }

ResultElements(p) ==
    { "divider", "result_header", "metric", "progress", "caption" }
      \cup (IF is_high_risk(p)
            THEN { "HIGH RISK", "Refer to Cardiology" }
            ELSE { "LOW RISK", "Standard Follow-up" })

AllResultElements ==
    { "divider", "result_header", "metric", "progress", "caption",
      "HIGH RISK", "Refer to Cardiology", "LOW RISK", "Standard Follow-up" }

\* ------------------------------------------------------ one script run
\* The whole script, lines 7-133, started by c with the selections w.  What
\* predict_proba answers is the classifier's business: any p of Probs.
Script(c, w) ==
    LET lm == load_model(cache, artifact, deserializations)
    IN  /\ cause' = c
        /\ widget' = w
        /\ cache' = lm.cache
        /\ loadStatus' = lm.status
        /\ deserializations' = IF lm.status = "loaded" THEN deserializations + 1
                               ELSE deserializations
        /\ firstReturn' = IF firstReturn = << >> THEN lm.value ELSE firstReturn
        /\ artifact' = artifact
        /\ IF lm.raises # ""
           THEN \* the exception leaves the script at line 25
                /\ model' = << >>
                /\ input_df' = << >>
                /\ predict_arg' = << >>
                /\ prediction_prob' = << >>
                /\ progress' = << >>
                /\ page' = HeaderElements \cup { "exception" }
           ELSE LET df == user_input_features(w)
                IN  /\ model' = lm.value
                    /\ input_df' = <<df>>
                    /\ IF Button(c) /\ Truthy(lm.value[1])
                       THEN \E p \in Probs :
                              /\ predict_arg' = <<df>>
                              /\ prediction_prob' = <<p>>
                              /\ progress' = <<ProgressValue(p)>>
                              /\ page' = HeaderElements \cup lm.drawn \cup FormElements
                                           \cup ResultElements(p)
                       ELSE /\ predict_arg' = << >>
                            /\ prediction_prob' = << >>
                            /\ progress' = << >>
                            /\ page' = HeaderElements \cup lm.drawn \cup FormElements

\* ------------------------------------------------------------ actions
\* The page is opened or rerun with the selections as they are.
RunPage ==
    /\ edits' = edits
    /\ Script("rerun", widget)

\* The user moves one widget; the script reruns with the new selection.
ChangeWidget ==
    /\ "widgets" \in page
    /\ edits < MaxEdits
    /\ edits' = edits + 1
    /\ \E w \in WidgetNames : \E v \in Choices(w) \ { widget[w] } :
         Script("widget", [ widget EXCEPT ![w] = v ])

\* The user clicks "Assess Risk".
PressAssess ==
    /\ "button" \in page
    /\ edits' = edits
    /\ Script("assess", widget)

\* deploy_model.py writes the artifact.
ArtifactGenerated ==
    /\ artifact # "valid"
    /\ artifact' = "valid"
    /\ UNCHANGED << cache, deserializations, firstReturn, widget, edits, cause,
                    loadStatus, model, input_df, predict_arg, prediction_prob,
                    progress, page >>

\* The artifact file is deleted.
ArtifactRemoved ==
    /\ artifact # "absent"
    /\ artifact' = "absent"
    /\ UNCHANGED << cache, deserializations, firstReturn, widget, edits, cause,
                    loadStatus, model, input_df, predict_arg, prediction_prob,
                    progress, page >>

\* The artifact file is overwritten with something joblib cannot read.
ArtifactCorrupted ==
    /\ artifact # "corrupt"
    /\ artifact' = "corrupt"
    /\ UNCHANGED << cache, deserializations, firstReturn, widget, edits, cause,
                    loadStatus, model, input_df, predict_arg, prediction_prob,
                    progress, page >>

Init ==
    /\ artifact \in { "absent", "valid", "corrupt" }
    /\ cache = << >>
    /\ deserializations = 0
    /\ firstReturn = << >>
    /\ widget = DefaultSelections
    /\ edits = 0
    /\ cause = "none"
    /\ loadStatus = "none"
    /\ model = << >>
    /\ input_df = << >>
    /\ predict_arg = << >>
    /\ prediction_prob = << >>
    /\ progress = << >>
    /\ page = {}

Next ==
    \/ RunPage
    \/ ChangeWidget
    \/ PressAssess
    \/ ArtifactGenerated
    \/ ArtifactRemoved
    \/ ArtifactCorrupted

Spec == Init /\ [][Next]_vars

TypeOK ==
    /\ artifact \in { "absent", "valid", "corrupt" }
    /\ Len(cache) <= 1
    /\ deserializations \in Nat
    /\ widget \in [ WidgetNames -> Int ]
    /\ \A w \in WidgetNames : widget[w] \in Choices(w)
    /\ edits \in 0..MaxEdits
    /\ cause \in { "none", "rerun", "widget", "assess" }
    /\ loadStatus \in { "none", "hit", "loaded", "notfound", "raised" }
    /\ page \subseteq HeaderElements \cup FormElements \cup AllResultElements
                        \cup { "model_error", "exception" }

\* ------------------------------------------------------------- claims
ShownResult == page \cap AllResultElements

ModelPresent == model # << >> /\ model[1].kind = "model"

FieldNames ==
    { "age", "sex", "cp", "trestbps", "chol", "fbs", "restecg", "thalach",
      "exang", "oldpeak", "slope", "ca", "thal" }

\* C1: whenever a result is shown for probability p, the page shows HIGH RISK
\* with "Refer to Cardiology" exactly when p >= 0.3 and LOW RISK with
\* "Standard Follow-up" exactly when p < 0.3, never a label with the other
\* label's recommendation; and from one shown result to the next, a
\* probability that did not fall keeps HIGH.
C1_ThresholdExact ==
    /\ [](prediction_prob # << >> =>
            LET p == prediction_prob[1]
            IN  /\ ("HIGH RISK" \in page) <=> (10 * p >= 3 * Scale)
                /\ ("LOW RISK" \in page) <=> (10 * p < 3 * Scale)
                /\ ("Refer to Cardiology" \in page) <=> ("HIGH RISK" \in page)
                /\ ("Standard Follow-up" \in page) <=> ("LOW RISK" \in page)
                /\ ~ ("HIGH RISK" \in page /\ "LOW RISK" \in page))
    /\ [][(/\ prediction_prob # << >>
           /\ prediction_prob' # << >>
           /\ prediction_prob[1] <= prediction_prob'[1]
           /\ "HIGH RISK" \in page) => "HIGH RISK" \in page']_vars

\* p = 0.3 exactly has been assessed and came out HIGH.
C1_Witness ==
    /\ prediction_prob = << 3000 >>
    /\ "HIGH RISK" \in page
    /\ "Refer to Cardiology" \in page

\* C2 as stated: in every run started by "Assess Risk" while the artifact
\* file is absent, the error message is drawn, predict_proba is not called
\* and nothing of the result is drawn.
C2_AsStated ==
    [][(/\ artifact = "absent"
        /\ artifact' = artifact
        /\ cause' = "assess")
       => (/\ "model_error" \in page'
           /\ predict_arg' = << >>
           /\ prediction_prob' = << >>
           /\ progress' = << >>
           /\ page' \cap AllResultElements = {})]_vars

\* C2 amended: if the artifact file was absent when load_model first read it
\* (its first return was None), then in every run started by "Assess Risk"
\* the error message is drawn, predict_proba is not called and no
\* probability, label, recommendation or progress bar is drawn.
C2_MissingAtLoad ==
    (cause = "assess" /\ firstReturn = << NoneValue >>)
      => /\ "model_error" \in page
         /\ model = << NoneValue >>
         /\ predict_arg = << >>
         /\ prediction_prob = << >>
         /\ progress = << >>
         /\ ShownResult = {}

\* "Assess Risk" was clicked in a process whose load found no artifact.
C2_Witness ==
    /\ cause = "assess"
    /\ firstReturn = << NoneValue >>
    /\ "model_error" \in page
    /\ "button" \in page

\* C3: joblib.load builds an object at most once per process, and every
\* value load_model returns is the one its first return gave.
C3_LoadOnce ==
    /\ deserializations <= 1
    /\ model # << >> => model = firstReturn

\* A later run got the one instance from the cache.
C3_Witness ==
    /\ loadStatus = "hit"
    /\ model = << ModelObject(1) >>
    /\ deserializations = 1

\* C4 as stated: whenever the load fails, by a missing file or by a file that
\* cannot be deserialized, the run ends without an unhandled exception, the
\* error message is drawn and predict_proba is not called.
C4_AsStated ==
    (loadStatus \in { "notfound", "raised" } \/ model = << NoneValue >>)
      => /\ "exception" \notin page
         /\ "model_error" \in page
         /\ predict_arg = << >>
         /\ ShownResult = {}

\* C5: the record a run builds, and the one predict_proba is called with, has
\* exactly the thirteen field names and every value in its domain.
C5_RecordWellFormed ==
    /\ "summary" \in page => input_df # << >>
    /\ \A s \in { input_df, predict_arg } : s # << >> =>
         LET r == s[1]
         IN  /\ DOMAIN r = FieldNames
             /\ Cardinality(DOMAIN r) = 13
             /\ r.age \in 20..80
             /\ r.sex \in { 0, 1 }
             /\ r.cp \in 0..3
             /\ r.trestbps \in 80..200
             /\ r.chol \in 100..600
             /\ r.fbs \in { 0, 1 }
             /\ r.restecg \in { 0, 1, 2 }
             /\ r.thalach \in 60..220
             /\ r.exang \in { 0, 1 }
             /\ r.oldpeak \in 0..620
             /\ r.slope \in { 0, 1, 2 }
             /\ r.ca \in 0..3
             /\ r.thal \in { 1, 2, 3 }

\* predict_proba was called with a record at the upper ends of two sliders.
C5_Witness ==
    /\ predict_arg # << >>
    /\ predict_arg[1].age = 80
    /\ predict_arg[1].oldpeak = 620

\* C6: the code of every choice is the one its label stands for: Male 1,
\* Female 0, Yes 1, No 0, the digit in the trailing parentheses for chest
\* pain and thalassemia, the option itself for ECG and slope; every label
\* has a code and two labels of one field never share one.
C6_LabelCodes ==
    /\ input_df # << >> =>
         LET r  == input_df[1]
             cl == CpOptions[widget["cp"]]
             tl == ThalOptions[widget["thal"]]
         IN  /\ SexOptions[widget["sex"]] = "Male" => r.sex = 1
             /\ SexOptions[widget["sex"]] = "Female" => r.sex = 0
             /\ FbsOptions[widget["fbs"]] = "Yes" => r.fbs = 1
             /\ FbsOptions[widget["fbs"]] = "No" => r.fbs = 0
             /\ ExangOptions[widget["exang"]] = "Yes" => r.exang = 1
             /\ ExangOptions[widget["exang"]] = "No" => r.exang = 0
             /\ r.cp = widget["cp"] - 1
             /\ cl[Len(cl) - 2] = "("
             /\ cl[Len(cl) - 1] = Digits[r.cp + 1]
             /\ cl[Len(cl)] = ")"
             /\ r.thal = widget["thal"]
             /\ tl[Len(tl) - 2] = "("
             /\ tl[Len(tl) - 1] = Digits[r.thal + 1]
             /\ tl[Len(tl)] = ")"
             /\ r.restecg = RestecgOptions[widget["restecg"]]
             /\ r.restecg = widget["restecg"] - 1
             /\ r.slope = SlopeOptions[widget["slope"]]
             /\ r.slope = widget["slope"] - 1
    /\ \A i, j \in DOMAIN CpOptions :
         /\ LabelCode(CpOptions[i]) \in 0..3
         /\ i # j => LabelCode(CpOptions[i]) # LabelCode(CpOptions[j])
    /\ \A i, j \in DOMAIN ThalOptions :
         /\ LabelCode(ThalOptions[i]) \in 1..3
         /\ i # j => LabelCode(ThalOptions[i]) # LabelCode(ThalOptions[j])

\* "Reversible Defect (3)", "Typical Angina (0)" and "Female" are selected and
\* the record carries their codes.
C6_Witness ==
    /\ input_df # << >>
    /\ widget["thal"] = 3
    /\ widget["cp"] = 1
    /\ input_df[1].thal = 3
    /\ input_df[1].cp = 0

\* The selections of the end-to-end scenario, sliders by value and choices by
\* position: Male, Non-anginal Pain (2), No, 1, No, 1, Fixed Defect (2).
ScenarioSelections ==
    [ w \in WidgetNames |->
        CASE w = "age"      -> 58
          [] w = "sex"      -> 1
          [] w = "cp"       -> 3
          [] w = "trestbps" -> 120
          [] w = "chol"     -> 210
          [] w = "thalach"  -> 130
          [] w = "fbs"      -> 1
          [] w = "restecg"  -> 2
          [] w = "exang"    -> 1
          [] w = "oldpeak"  -> 150
          [] w = "slope"    -> 2
          [] w = "ca"       -> 0
          [] w = "thal"     -> 2 ]

ScenarioRecord ==
    [ age |-> 58, sex |-> 1, cp |-> 2, trestbps |-> 120, chol |-> 210,
      fbs |-> 0, restecg |-> 1, thalach |-> 130, exang |-> 0, oldpeak |-> 150,
      slope |-> 1, ca |-> 0, thal |-> 2 ]

\* C7: the scenario's selections are the ones every session starts with;
\* with them the record is {58,1,2,120,210,0,1,130,0,1.5,1,0,2}; assessed by
\* a classifier answering 0.45 the page shows HIGH RISK and "Refer to
\* Cardiology", by one answering 0.1 LOW RISK and "Standard Follow-up".
C7_EndToEnd ==
    /\ SexOptions[ScenarioSelections["sex"]] = "Male"
    /\ CpOptions[ScenarioSelections["cp"]] =
         << "N", "o", "n", "-", "a", "n", "g", "i", "n", "a", "l", " ", "P", "a", "i", "n", " ", "(", "2", ")" >>
    /\ FbsOptions[ScenarioSelections["fbs"]] = "No"
    /\ RestecgOptions[ScenarioSelections["restecg"]] = 1
    /\ ExangOptions[ScenarioSelections["exang"]] = "No"
    /\ SlopeOptions[ScenarioSelections["slope"]] = 1
    /\ ThalOptions[ScenarioSelections["thal"]] =
         << "F", "i", "x", "e", "d", " ", "D", "e", "f", "e", "c", "t", " ", "(", "2", ")" >>
    /\ edits = 0 => widget = ScenarioSelections
    /\ (widget = ScenarioSelections /\ "summary" \in page)
         => input_df = << ScenarioRecord >>
    /\ (widget = ScenarioSelections /\ prediction_prob = << 4500 >>)
         => /\ predict_arg = << ScenarioRecord >>
            /\ { "HIGH RISK", "Refer to Cardiology" } \subseteq page
            /\ { "LOW RISK", "Standard Follow-up" } \cap page = {}
    /\ (widget = ScenarioSelections /\ prediction_prob = << 1000 >>)
         => /\ predict_arg = << ScenarioRecord >>
            /\ { "LOW RISK", "Standard Follow-up" } \subseteq page
            /\ { "HIGH RISK", "Refer to Cardiology" } \cap page = {}

\* The scenario was assessed by a classifier answering 0.45.
C7_Witness ==
    /\ widget = ScenarioSelections
    /\ edits = 0
    /\ prediction_prob = << 4500 >>
    /\ predict_arg = << ScenarioRecord >>
    /\ "HIGH RISK" \in page

\* C8: the argument of st.progress is the integer part of 100 p, lies in
\* 0..100, is 0 for p = 0 and 100 for p = 1, and from one shown result to the
\* next does not fall when p does not fall.
C8_ProgressProportional ==
    /\ []((progress # << >> \/ "progress" \in page) =>
            /\ prediction_prob # << >>
            /\ progress # << >>
            /\ "progress" \in page
            /\ LET p == prediction_prob[1]
                   n == progress[1]
               IN  /\ n \in 0..100
                   /\ n * Scale <= 100 * p
                   /\ 100 * p < (n + 1) * Scale
                   /\ p = 0 => n = 0
                   /\ p = Scale => n = 100)
    /\ [][(/\ progress # << >>
           /\ progress' # << >>
           /\ prediction_prob[1] <= prediction_prob'[1])
          => progress[1] <= progress'[1]]_vars

\* p = 1 was assessed and the bar is full.
C8_Witness ==
    /\ prediction_prob = << Scale >>
    /\ progress = << 100 >>
    /\ "progress" \in page

\* C9: a result is on the page exactly when the run was started by "Assess
\* Risk" and the model is present; it is computed from the record built in
\* that run from the current selections; a run started by a widget change
\* draws the patient data summary of the current selections and no result.
C9_NoStaleResult ==
    /\ (ShownResult # {}) <=> (cause = "assess" /\ ModelPresent)
    /\ (prediction_prob # << >>) <=> (ShownResult # {})
    /\ ShownResult # {} =>
         /\ input_df = << user_input_features(widget) >>
         /\ predict_arg = input_df
         /\ ShownResult = ResultElements(prediction_prob[1])
    /\ cause = "widget" =>
         /\ "summary" \in page
         /\ input_df = << user_input_features(widget) >>
         /\ ShownResult = {}
         /\ predict_arg = << >>
         /\ progress = << >>
    /\ cause = "rerun" => ShownResult = {}

\* A widget was changed while the model is present, and no result is shown.
C9_Witness ==
    /\ cause = "widget"
    /\ ModelPresent
    /\ widget # DefaultSelections
    /\ "summary" \in page
    /\ ShownResult = {}

\* C10: in every run after one in which load_model returned None, load_model
\* returns None again from the cache without reading the file, nothing is
\* built and no result is drawn, whatever the file has become; in every run
\* after one in which it returned a model, it returns that model.
C10_OutcomeMemoized ==
    [][artifact' = artifact =>
         /\ model = << NoneValue >> =>
              /\ model' = << NoneValue >>
              /\ loadStatus' = "hit"
              /\ deserializations' = deserializations
              /\ predict_arg' = << >>
              /\ page' \cap AllResultElements = {}
              /\ "exception" \notin page'
         /\ ModelPresent => model' = model]_vars

\* The artifact exists by now, "Assess Risk" was clicked, and the cached None
\* still keeps inference off.
C10_Witness ==
    /\ artifact = "valid"
    /\ cause = "assess"
    /\ model = << NoneValue >>
    /\ loadStatus = "hit"
    /\ ShownResult = {}
====
